---- MODULE Spec2Model ----
(***************************************************************************)
(* Voting and score subsystem of the forum backend:                        *)
(*   src/routes/posts.js     create post / create comment / delete post /  *)
(*                           vote on post                                  *)
(*   src/unnamed/part_000    delete comment / vote on comment              *)
(*   src/models/Vote.js      Vote schema and its unique (user, item) index *)
(*                                                                         *)
(* Every handler is an async function.  Between two awaits it runs without *)
(* interruption, so one action of the model is one store operation         *)
(* together with the synchronous code that follows it up to the next store *)
(* operation being issued.  The store operations are those Mongoose sends: *)
(*   doc.save() of a new document      insertOne (unique indexes checked)  *)
(*   doc.save() of a loaded document   updateOne({_id}, {$set: modified    *)
(*                                     paths}); DocumentNotFoundError when *)
(*                                     no document has that _id            *)
(*   doc.remove()                      deleteOne({_id}), no error if gone  *)
(*   Model.deleteMany(filter)          removes every matching document     *)
(***************************************************************************)
EXTENDS Integers, Sequences, FiniteSets, TLC

\* Bounds of the model.
MaxUsers == 2
MaxItems == 2
MaxProcs == 2
MaxReqs == 3
MaxSeqReqs == 4
MaxVoteReqs == 6
MaxApartReqs == 4

Users == 1..MaxUsers
ItemIds == 1..MaxItems
Procs == 1..MaxProcs
Kinds == {"post", "comment"}

\* req.body.voteType: the three valid values, and 2 for any other value.
VoteTypes == {-1, 0, 1, 2}

VARIABLES
    posts,       \* Post collection: set of [id, author, post, votes]
    comments,    \* Comment collection: set of [id, author, post, votes]
    votes,       \* Vote collection: set of [id, user, item, itemType, value]
    nextId,      \* next fresh ObjectId of a post or comment
    nreq,        \* number of requests received so far
    pc,          \* position of each request handler
    req,         \* the request a handler serves: [op, kind, user, id, voteType]
    doc,         \* the handler's local post / comment document
    vote,        \* the handler's local vote document
    voteChange,  \* the handler's local voteChange
    postKarma,   \* the karma computation's local postKarma
    res,         \* the response sent: [status, votes, err, id]
    hist,        \* observer: the latest run of vote requests on one (user, item)
    epoch,       \* observer: the store when the system was last quiet, and
                 \* the requests received since
    deleted,     \* observer: the items whose deletion was answered 200
    trace        \* observer: the latest run of vote requests on one item

vars == <<posts, comments, votes, nextId, nreq, pc, req, doc, vote,
          voteChange, postKarma, res, hist, epoch, deleted, trace>>
store == <<posts, comments, votes>>
locals == <<doc, vote, voteChange, postKarma>>

NoDoc == [id |-> 0, author |-> 0, post |-> 0, votes |-> 0]
NoVote == [id |-> 0, user |-> 0, item |-> 0, itemType |-> "", value |-> 0]
NoReq == [op |-> "none", kind |-> "", user |-> 0, id |-> 0, voteType |-> 0]
NoRes == [status |-> 0, votes |-> 0, err |-> "", id |-> 0]

\* res.status(status).json(...): votes is the number the body carries (the
\* item's votes, or the user's karma), id the _id of a document sent back.
Response(status, body, err) ==
    [status |-> status, votes |-> body, err |-> err, id |-> 0]

\* res.json(post), res.json(commentObj)
Created(d) == [status |-> 200, votes |-> d.votes, err |-> "", id |-> d.id]

\* ---------------------------------------------------------------- store

Collection(kind) == IF kind = "post" THEN posts ELSE comments

\* Model.findById(id): the document of that collection with this _id, or null.
findById(coll, id) ==
    IF \E d \in coll : d.id = id THEN CHOOSE d \in coll : d.id = id ELSE NoDoc

\* Vote.findOne({user, item, itemType}): a matching vote, or null.
findOneIn(V, user, item, itemType) ==
    LET found == {v \in V : v.user = user /\ v.item = item /\ v.itemType = itemType}
    IN IF found = {} THEN NoVote ELSE CHOOSE v \in found : TRUE
findOneMutant(user, item, itemType) ==
    LET found == {v \in votes : v.user = user /\ v.itemType = itemType}
    IN IF found = {} THEN NoVote ELSE CHOOSE v \in found : TRUE
findOne(user, item, itemType) == findOneIn(votes, user, item, itemType)

\* A fresh ObjectId for a vote: the ids are opaque, the smallest unused one
\* stands for it.
UsedVoteIds == {v.id : v \in votes} \cup {vote[p].id : p \in Procs}
NewVoteId ==
    CHOOSE n \in 1..(Cardinality(UsedVoteIds) + 1) :
        /\ n \notin UsedVoteIds
        /\ \A m \in 1..(n - 1) : m \in UsedVoteIds

\* new Vote({user, item, itemType, value})
NewVote(user, item, itemType, value) ==
    [id |-> NewVoteId, user |-> user, item |-> item, itemType |-> itemType,
     value |-> value]

\* The unique index {user: 1, item: 1} of the Vote collection.
UniqueIndexAllowsMutant(v) == TRUE
UniqueIndexAllows(v) == ~ \E w \in votes : w.user = v.user /\ w.item = v.item

\* updateOne({_id: d.id}, {$set: {votes: d.votes}}) on a collection.
SetVotesMutant(coll, d) == coll
SetVotes(coll, d) ==
    {IF x.id = d.id THEN [x EXCEPT !.votes = d.votes] ELSE x : x \in coll}

Exists(coll, id) == \E d \in coll : d.id = id

RECURSIVE SumValues(_)
SumValues(S) ==
    IF S = {} THEN 0
    ELSE LET v == CHOOSE x \in S : TRUE IN v.value + SumValues(S \ {v})

VotesOf(kind, id) == {v \in votes : v.item = id /\ v.itemType = kind}

\* ---------------------------------------------------------------- handlers

Idle(p) == pc[p] \in {"idle", "done"}
Quiet == \A p \in Procs : Idle(p)

\* A handler returns: its locals are dropped, the response stays.
Finish(p, r) ==
    /\ pc' = [pc EXCEPT ![p] = "done"]
    /\ res' = [res EXCEPT ![p] = r]
    /\ doc' = [doc EXCEPT ![p] = NoDoc]
    /\ vote' = [vote EXCEPT ![p] = NoVote]
    /\ voteChange' = [voteChange EXCEPT ![p] = 0]
    /\ postKarma' = [postKarma EXCEPT ![p] = 0]

\* The handler goes on to its next store operation.
Goto(p, label) == pc' = [pc EXCEPT ![p] = label] /\ UNCHANGED postKarma

\* A request arrives at an idle handler slot.
Receive(p, r) ==
    /\ Idle(p)
    /\ req' = [req EXCEPT ![p] = r]
    /\ nreq' = nreq + 1

\* The handler issues its first store operation.
Begin(p, label) ==
    /\ pc' = [pc EXCEPT ![p] = label]
    /\ res' = [res EXCEPT ![p] = NoRes]
    /\ UNCHANGED locals

\* updateOne of the votes field of the handler's post or comment.
UpdateItem(kind, d) ==
    /\ posts' = IF kind = "post" THEN SetVotes(posts, d) ELSE posts
    /\ comments' = IF kind = "comment" THEN SetVotes(comments, d) ELSE comments

\* ------------------------------------------- POST /:id/vote (post, comment)

ValidVoteTypeMutant(t) == t \in {1, 0, -1, 2}
ValidVoteType(t) == t \in {1, 0, -1}

\* voteChange = voteType - vote.value
VoteChangeMutant(t, v) == t
VoteChange(t, v) == t - v.value

\* post.votes += voteChange, on the handler's local document
AddVotes(d, change) == [d EXCEPT !.votes = d.votes + change]

VoteStart(p, u, k, i, t) ==
    /\ Receive(p, [op |-> "vote", kind |-> k, user |-> u, id |-> i, voteType |-> t])
    /\ IF ValidVoteType(t)
       THEN Begin(p, "v_findItem")
       ELSE Finish(p, Response(400, 0, "Invalid vote type"))
    /\ UNCHANGED <<store, nextId>>

\* const post = await Post.findById(req.params.id)
VoteFindItemMutant(p) ==
    /\ pc[p] = "v_findItem"
    /\ doc' = [doc EXCEPT ![p] = findById(Collection(req[p].kind), req[p].id)]
    /\ Goto(p, "v_findVote")
    /\ UNCHANGED <<vote, voteChange, res>>
    /\ UNCHANGED <<store, nextId, nreq, req>>
VoteFindItem(p) ==
    /\ pc[p] = "v_findItem"
    /\ LET d == findById(Collection(req[p].kind), req[p].id) IN
       IF d = NoDoc
       THEN Finish(p, Response(404, 0, "not found"))
       ELSE /\ doc' = [doc EXCEPT ![p] = d]
            /\ Goto(p, "v_findVote")
            /\ UNCHANGED <<vote, voteChange, res>>
    /\ UNCHANGED <<store, nextId, nreq, req>>

\* The branch of the handler for the vote found (NoVote: none) and the
\* requested voteType: if (vote) { if (voteType === 0) remove else update }
\* else if (voteType !== 0) insert
VoteBranchZeroMutant(t, v) ==
    IF v # NoVote THEN "v_update"
    ELSE IF t # 0 THEN "v_insert" ELSE "v_saveItem"
VoteBranchMutant(t, v) ==
    IF v # NoVote
    THEN IF t = 0 \/ t = v.value THEN "v_remove" ELSE "v_update"
    ELSE IF t # 0 THEN "v_insert" ELSE "v_saveItem"
VoteBranch(t, v) ==
    IF v # NoVote
    THEN IF t = 0 THEN "v_remove" ELSE "v_update"
    ELSE IF t # 0 THEN "v_insert" ELSE "v_saveItem"

\* let vote = await Vote.findOne(...), and the branch taken on its result
VoteFindVoteMutant(p) ==
    /\ pc[p] = "v_findVote"
    /\ UNCHANGED vars
VoteFindVote(p) ==
    /\ pc[p] = "v_findVote"
    /\ LET t == req[p].voteType
           v == findOne(req[p].user, doc[p].id, req[p].kind)
           branch == VoteBranch(t, v)
       IN /\ Goto(p, branch)
          /\ voteChange' = [voteChange EXCEPT ![p] =
                              IF v # NoVote THEN VoteChange(t, v) ELSE 0]
          /\ vote' = [vote EXCEPT ![p] =
                        IF branch = "v_remove" THEN v
                        ELSE IF branch = "v_update" THEN [v EXCEPT !.value = t]
                        ELSE IF branch = "v_insert"
                        THEN NewVote(req[p].user, doc[p].id, req[p].kind, t)
                        ELSE NoVote]
          /\ doc' = [doc EXCEPT ![p] =
                       IF branch = "v_saveItem" THEN AddVotes(doc[p], 0) ELSE doc[p]]
    /\ UNCHANGED <<store, nextId, nreq, req, res>>

\* await vote.remove()
VoteRemoveAllMutant(p) ==
    /\ pc[p] = "v_remove"
    /\ votes' = {w \in votes : w.user # vote[p].user}
    /\ doc' = [doc EXCEPT ![p] = AddVotes(doc[p], voteChange[p])]
    /\ Goto(p, "v_saveItem")
    /\ UNCHANGED <<posts, comments, nextId, nreq, req, vote, voteChange, res>>
VoteRemoveMutant(p) ==
    /\ pc[p] = "v_remove"
    /\ doc' = [doc EXCEPT ![p] = AddVotes(doc[p], voteChange[p])]
    /\ Goto(p, "v_saveItem")
    /\ UNCHANGED <<store, nextId, nreq, req, vote, voteChange, res>>
VoteRemove(p) ==
    /\ pc[p] = "v_remove"
    /\ votes' = {w \in votes : w.id # vote[p].id}
    /\ doc' = [doc EXCEPT ![p] = AddVotes(doc[p], voteChange[p])]
    /\ Goto(p, "v_saveItem")
    /\ UNCHANGED <<posts, comments, nextId, nreq, req, vote, voteChange, res>>

\* vote.value = voteType; await vote.save(), of a vote that was loaded.
\* The save sends $set value only when voteType differs from the value
\* loaded; otherwise it only checks that the vote still exists.
VoteUpdateMutant(p) ==
    /\ pc[p] = "v_update"
    /\ IF \E w \in votes : w.id = vote[p].id
       THEN /\ votes' = IF voteChange[p] = 0 THEN votes
                        ELSE {IF w.id = vote[p].id
                              THEN [w EXCEPT !.value = vote[p].value]
                              ELSE w : w \in votes}
            /\ doc' = [doc EXCEPT ![p] = AddVotes(doc[p], req[p].voteType)]
            /\ Goto(p, "v_saveItem")
            /\ UNCHANGED <<vote, voteChange, res>>
       ELSE /\ Finish(p, Response(500, 0, "DocumentNotFound"))
            /\ UNCHANGED votes
    /\ UNCHANGED <<posts, comments, nextId, nreq, req>>
VoteUpdate(p) ==
    /\ pc[p] = "v_update"
    /\ IF \E w \in votes : w.id = vote[p].id
       THEN /\ votes' = IF voteChange[p] = 0 THEN votes
                        ELSE {IF w.id = vote[p].id
                              THEN [w EXCEPT !.value = vote[p].value]
                              ELSE w : w \in votes}
            /\ doc' = [doc EXCEPT ![p] = AddVotes(doc[p], voteChange[p])]
            /\ Goto(p, "v_saveItem")
            /\ UNCHANGED <<vote, voteChange, res>>
       ELSE /\ Finish(p, Response(500, 0, "DocumentNotFound"))
            /\ UNCHANGED votes
    /\ UNCHANGED <<posts, comments, nextId, nreq, req>>

\* vote = new Vote(...); await vote.save(); voteChange = voteType
VoteInsertMutant(p) ==
    /\ pc[p] = "v_insert"
    /\ IF UniqueIndexAllows(vote[p])
       THEN /\ votes' = votes \cup {vote[p]}
            /\ Goto(p, "v_saveItem")
            /\ UNCHANGED <<doc, voteChange, vote, res>>
       ELSE /\ Finish(p, Response(500, 0, "E11000"))
            /\ UNCHANGED votes
    /\ UNCHANGED <<posts, comments, nextId, nreq, req>>
VoteInsert(p) ==
    /\ pc[p] = "v_insert"
    /\ IF UniqueIndexAllows(vote[p])
       THEN /\ votes' = votes \cup {vote[p]}
            /\ voteChange' = [voteChange EXCEPT ![p] = req[p].voteType]
            /\ doc' = [doc EXCEPT ![p] = AddVotes(doc[p], req[p].voteType)]
            /\ Goto(p, "v_saveItem")
            /\ UNCHANGED <<vote, res>>
       ELSE /\ Finish(p, Response(500, 0, "E11000"))
            /\ UNCHANGED votes
    /\ UNCHANGED <<posts, comments, nextId, nreq, req>>

\* await post.save(); res.json({ votes: post.votes })
\* The save sends $set votes only when voteChange made post.votes differ from
\* the value loaded; otherwise it only checks that the document still exists.
VoteSaveItemMutant(p) ==
    /\ pc[p] = "v_saveItem"
    /\ IF Exists(Collection(req[p].kind), doc[p].id)
       THEN /\ IF voteChange[p] # 0
               THEN UpdateItem(req[p].kind, doc[p])
               ELSE UNCHANGED <<posts, comments>>
            /\ Finish(p, Response(200,
                   findById(Collection(req[p].kind), doc[p].id).votes, ""))
       ELSE /\ Finish(p, Response(500, 0, "DocumentNotFound"))
            /\ UNCHANGED <<posts, comments>>
    /\ UNCHANGED <<votes, nextId, nreq, req>>
VoteSaveItem(p) ==
    /\ pc[p] = "v_saveItem"
    /\ IF Exists(Collection(req[p].kind), doc[p].id)
       THEN /\ IF voteChange[p] # 0
               THEN UpdateItem(req[p].kind, doc[p])
               ELSE UNCHANGED <<posts, comments>>
            /\ Finish(p, Response(200, doc[p].votes, ""))
       ELSE /\ Finish(p, Response(500, 0, "DocumentNotFound"))
            /\ UNCHANGED <<posts, comments>>
    /\ UNCHANGED <<votes, nextId, nreq, req>>

\* Creations in flight that have not constructed their document yet.
PendingCreates ==
    Cardinality({q \in Procs : pc[q] \in {"cp_findCommunity", "cc_findPost"}})

\* ------------------------------------------------------ POST / (create post)

CreatePostStart(p, u) ==
    /\ nextId + PendingCreates <= MaxItems
    /\ Receive(p, [op |-> "create", kind |-> "post", user |-> u, id |-> 0,
                   voteType |-> 0])
    /\ Begin(p, "cp_findCommunity")
    /\ UNCHANGED <<store, nextId>>

\* const communityDoc = await Community.findOne({ name: community });
\* new Post({..., author: req.user.id, votes: 0})
CreatePostFindCommunity(p) ==
    /\ pc[p] = "cp_findCommunity"
    /\ \E found \in BOOLEAN :
         IF found
         THEN /\ doc' = [doc EXCEPT ![p] = [id |-> nextId, author |-> req[p].user,
                                            post |-> 0, votes |-> 0]]
              /\ nextId' = nextId + 1
              /\ Goto(p, "cp_savePost")
              /\ UNCHANGED <<vote, voteChange, res>>
         ELSE /\ Finish(p, Response(404, 0, "Community not found"))
              /\ UNCHANGED nextId
    /\ UNCHANGED <<store, nreq, req>>

\* const post = await newPost.save(); new Vote({..., value: 1})
CreatePostSave(p) ==
    /\ pc[p] = "cp_savePost"
    /\ posts' = posts \cup {doc[p]}
    /\ vote' = [vote EXCEPT ![p] = NewVote(req[p].user, doc[p].id, "post", 1)]
    /\ Goto(p, "cp_saveVote")
    /\ UNCHANGED <<comments, votes, nextId, nreq, req, doc, voteChange, res>>

\* await newVote.save(); post.votes = 1
CreatePostSaveVote(p) ==
    /\ pc[p] = "cp_saveVote"
    /\ IF UniqueIndexAllows(vote[p])
       THEN /\ votes' = votes \cup {vote[p]}
            /\ doc' = [doc EXCEPT ![p] = [doc[p] EXCEPT !.votes = 1]]
            /\ Goto(p, "cp_saveVotes")
            /\ UNCHANGED <<vote, voteChange, res>>
       ELSE /\ Finish(p, Response(500, 0, "E11000"))
            /\ UNCHANGED votes
    /\ UNCHANGED <<posts, comments, nextId, nreq, req>>

\* await post.save(); res.json(post)
CreatePostSaveVotes(p) ==
    /\ pc[p] = "cp_saveVotes"
    /\ IF Exists(posts, doc[p].id)
       THEN /\ posts' = SetVotes(posts, doc[p])
            /\ Finish(p, Created(doc[p]))
       ELSE /\ Finish(p, Response(500, 0, "DocumentNotFound"))
            /\ UNCHANGED posts
    /\ UNCHANGED <<comments, votes, nextId, nreq, req>>

\* ------------------------------------------ POST /:id/comments (create comment)

CreateCommentStart(p, u, i) ==
    /\ nextId + PendingCreates <= MaxItems
    /\ Receive(p, [op |-> "create", kind |-> "comment", user |-> u, id |-> i,
                   voteType |-> 0])
    /\ Begin(p, "cc_findPost")
    /\ UNCHANGED <<store, nextId>>

\* const post = await Post.findById(req.params.id);
\* new Comment({..., author: req.user.id, post: req.params.id, votes: 1})
CreateCommentFindPost(p) ==
    /\ pc[p] = "cc_findPost"
    /\ IF findById(posts, req[p].id) = NoDoc
       THEN /\ Finish(p, Response(404, 0, "Post not found"))
            /\ UNCHANGED nextId
       ELSE /\ doc' = [doc EXCEPT ![p] = [id |-> nextId, author |-> req[p].user,
                                          post |-> req[p].id, votes |-> 1]]
            /\ nextId' = nextId + 1
            /\ Goto(p, "cc_saveComment")
            /\ UNCHANGED <<vote, voteChange, res>>
    /\ UNCHANGED <<store, nreq, req>>

\* const comment = await newComment.save(); new Vote({..., value: 1})
CreateCommentSave(p) ==
    /\ pc[p] = "cc_saveComment"
    /\ comments' = comments \cup {doc[p]}
    /\ vote' = [vote EXCEPT ![p] = NewVote(req[p].user, doc[p].id, "comment", 1)]
    /\ Goto(p, "cc_saveVote")
    /\ UNCHANGED <<posts, votes, nextId, nreq, req, doc, voteChange, res>>

\* await newVote.save()
CreateCommentSaveVoteMutant(p) ==
    /\ pc[p] = "cc_saveVote"
    /\ Goto(p, "cc_populate")
    /\ UNCHANGED <<locals, res>>
    /\ UNCHANGED <<posts, comments, votes, nextId, nreq, req>>
CreateCommentSaveVote(p) ==
    /\ pc[p] = "cc_saveVote"
    /\ IF UniqueIndexAllows(vote[p])
       THEN /\ votes' = votes \cup {vote[p]}
            /\ Goto(p, "cc_populate")
            /\ UNCHANGED <<locals, res>>
       ELSE /\ Finish(p, Response(500, 0, "E11000"))
            /\ UNCHANGED votes
    /\ UNCHANGED <<posts, comments, nextId, nreq, req>>

\* await comment.populate('author', ...); res.json(commentObj)
CreateCommentPopulate(p) ==
    /\ pc[p] = "cc_populate"
    /\ Finish(p, Created(doc[p]))
    /\ UNCHANGED <<store, nextId, nreq, req>>

\* ---------------------------------------------------- DELETE /:id (post)

DeletePostStart(p, u, i) ==
    /\ Receive(p, [op |-> "delete", kind |-> "post", user |-> u, id |-> i,
                   voteType |-> 0])
    /\ Begin(p, "dp_findPost")
    /\ UNCHANGED <<store, nextId>>

\* const post = await Post.findById(req.params.id), and the author check
DeletePostFindMutant(p) ==
    /\ pc[p] = "dp_findPost"
    /\ LET d == findById(posts, req[p].id) IN
       IF d = NoDoc
       THEN Finish(p, Response(404, 0, "Post not found"))
       ELSE /\ doc' = [doc EXCEPT ![p] = d]
            /\ Goto(p, "dp_deleteComments")
            /\ UNCHANGED <<vote, voteChange, res>>
    /\ UNCHANGED <<store, nextId, nreq, req>>
DeletePostFind(p) ==
    /\ pc[p] = "dp_findPost"
    /\ LET d == findById(posts, req[p].id) IN
       IF d = NoDoc
       THEN Finish(p, Response(404, 0, "Post not found"))
       ELSE IF d.author # req[p].user
       THEN Finish(p, Response(401, 0, "User not authorized"))
       ELSE /\ doc' = [doc EXCEPT ![p] = d]
            /\ Goto(p, "dp_deleteComments")
            /\ UNCHANGED <<vote, voteChange, res>>
    /\ UNCHANGED <<store, nextId, nreq, req>>

\* await Comment.deleteMany({ post: post._id })
DeletePostComments(p) ==
    /\ pc[p] = "dp_deleteComments"
    /\ comments' = {c \in comments : c.post # doc[p].id}
    /\ Goto(p, "dp_deleteVotes")
    /\ UNCHANGED <<posts, votes, nextId, nreq, req, locals, res>>

\* await Vote.deleteMany({ item: post._id, itemType: 'post' })
DeletePostVotesMutant(p) ==
    /\ pc[p] = "dp_deleteVotes"
    /\ Goto(p, "dp_remove")
    /\ UNCHANGED <<store, nextId, nreq, req, locals, res>>
DeletePostVotes(p) ==
    /\ pc[p] = "dp_deleteVotes"
    /\ votes' = votes \ VotesOf("post", doc[p].id)
    /\ Goto(p, "dp_remove")
    /\ UNCHANGED <<posts, comments, nextId, nreq, req, locals, res>>

\* await post.remove(); res.json({ message: 'Post deleted' })
DeletePostRemove(p) ==
    /\ pc[p] = "dp_remove"
    /\ posts' = {d \in posts : d.id # doc[p].id}
    /\ Finish(p, Response(200, 0, ""))
    /\ UNCHANGED <<comments, votes, nextId, nreq, req>>

\* ------------------------------------------------- DELETE /:id (comment)

DeleteCommentStart(p, u, i) ==
    /\ Receive(p, [op |-> "delete", kind |-> "comment", user |-> u, id |-> i,
                   voteType |-> 0])
    /\ Begin(p, "dc_findComment")
    /\ UNCHANGED <<store, nextId>>

\* const comment = await Comment.findById(req.params.id), and the author check
DeleteCommentFind(p) ==
    /\ pc[p] = "dc_findComment"
    /\ LET d == findById(comments, req[p].id) IN
       IF d = NoDoc
       THEN Finish(p, Response(404, 0, "Comment not found"))
       ELSE IF d.author # req[p].user
       THEN Finish(p, Response(401, 0, "User not authorized"))
       ELSE /\ doc' = [doc EXCEPT ![p] = d]
            /\ Goto(p, "dc_deleteVotes")
            /\ UNCHANGED <<vote, voteChange, res>>
    /\ UNCHANGED <<store, nextId, nreq, req>>

\* await Vote.deleteMany({ item: comment._id, itemType: 'comment' })
DeleteCommentVotesMutant(p) ==
    /\ pc[p] = "dc_deleteVotes"
    /\ Goto(p, "dc_remove")
    /\ UNCHANGED <<store, nextId, nreq, req, locals, res>>
DeleteCommentVotes(p) ==
    /\ pc[p] = "dc_deleteVotes"
    /\ votes' = votes \ VotesOf("comment", doc[p].id)
    /\ Goto(p, "dc_remove")
    /\ UNCHANGED <<posts, comments, nextId, nreq, req, locals, res>>

\* await comment.remove(); res.json({ message: 'Comment deleted' })
DeleteCommentRemove(p) ==
    /\ pc[p] = "dc_remove"
    /\ comments' = {d \in comments : d.id # doc[p].id}
    /\ Finish(p, Response(200, 0, ""))
    /\ UNCHANGED <<posts, votes, nextId, nreq, req>>

\* ------------------------------------------- GET /:username (user, karma)

\* posts.reduce((total, post) => total + post.votes, 0)
RECURSIVE SumVotes(_)
SumVotes(S) ==
    IF S = {} THEN 0
    ELSE LET d == CHOOSE x \in S : TRUE IN d.votes + SumVotes(S \ {d})

\* Model.find({ author: userId })
findByAuthor(coll, userId) == {d \in coll : d.author = userId}

\* calculateKarma(userId) on the store as it is
Karma(u) == SumVotes(findByAuthor(posts, u)) + SumVotes(findByAuthor(comments, u))
KarmaStart(p, u) ==
    /\ Receive(p, [op |-> "karma", kind |-> "", user |-> u, id |-> 0,
                   voteType |-> 0])
    /\ Begin(p, "k_findUser")
    /\ UNCHANGED <<store, nextId>>

\* const user = await User.findOne({ username: req.params.username })
KarmaFindUser(p) ==
    /\ pc[p] = "k_findUser"
    /\ \E found \in BOOLEAN :
         IF found
         THEN /\ pc' = [pc EXCEPT ![p] = "k_findPosts"]
              /\ UNCHANGED <<locals, res>>
         ELSE Finish(p, Response(404, 0, "User not found"))
    /\ UNCHANGED <<store, nextId, nreq, req>>

\* const posts = await Post.find({ author: userId }); postKarma = ...
KarmaFindPosts(p) ==
    /\ pc[p] = "k_findPosts"
    /\ postKarma' = [postKarma EXCEPT ![p] =
                       SumVotes(findByAuthor(posts, req[p].user))]
    /\ pc' = [pc EXCEPT ![p] = "k_findComments"]
    /\ UNCHANGED <<store, nextId, nreq, req, doc, vote, voteChange, res>>

\* const comments = await Comment.find({ author: userId });
\* return postKarma + commentKarma; user.karma = karma; res.json(user)
KarmaFindCommentsMutant(p) ==
    /\ pc[p] = "k_findComments"
    /\ Finish(p, Response(200, SumVotes(findByAuthor(comments, req[p].user)), ""))
    /\ UNCHANGED <<store, nextId, nreq, req>>
KarmaFindComments(p) ==
    /\ pc[p] = "k_findComments"
    /\ Finish(p, Response(200, postKarma[p]
                                + SumVotes(findByAuthor(comments, req[p].user)), ""))
    /\ UNCHANGED <<store, nextId, nreq, req>>

\* ------------------------------------------------------------ store failure

\* The store operation a handler awaits is rejected (the store is
\* unreachable): the handler's catch block answers 500.
StoreError(p) ==
    /\ ~ Idle(p)
    /\ pc[p] \notin {"k_findPosts", "k_findComments"}
    /\ Finish(p, Response(500, 0, "StoreUnavailable"))
    /\ UNCHANGED <<store, nextId, nreq, req>>

\* A store operation of calculateKarma is rejected: its own catch block
\* logs the error and returns 0, which the handler sends as the karma.
KarmaStoreError(p) ==
    /\ pc[p] \in {"k_findPosts", "k_findComments"}
    /\ Finish(p, Response(200, 0, "Error calculating karma"))
    /\ UNCHANGED <<store, nextId, nreq, req>>

\* ---------------------------------------------------------------- observers

CollectionIn(P, C, kind) == IF kind = "post" THEN P ELSE C
Brief(v) == [id |-> v.id, value |-> v.value]

\* hist: the vote requests served one after the other for one (user, item)
\* since the last request of another kind or for another pair (the last three
\* of them), each with the item's stored score and the user's vote record
\* before and after it.
HistEntry(r) ==
    [user |-> r.user, kind |-> r.kind, item |-> r.id, type |-> r.voteType,
     status |-> 0,
     sBefore |-> findById(Collection(r.kind), r.id).votes,
     vBefore |-> Brief(findOne(r.user, r.id, r.kind)),
     sAfter |-> 0, vAfter |-> Brief(NoVote)]

SamePair(e, r) == e.user = r.user /\ e.kind = r.kind /\ e.item = r.id

LastThree(h) == IF Len(h) > 3 THEN SubSeq(h, Len(h) - 2, Len(h)) ELSE h

HistObserve(p) ==
    LET r == req'[p]
        opened ==
            IF nreq' = nreq THEN hist
            ELSE IF r.op # "vote" THEN <<>>
            ELSE IF hist # <<>> /\ SamePair(hist[1], r)
            THEN LastThree(Append(hist, HistEntry(r)))
            ELSE <<HistEntry(r)>>
        closed ==
            IF pc'[p] = "done" /\ r.op = "vote"
            THEN [opened EXCEPT ![Len(opened)] =
                    [@ EXCEPT
                       !.status = res'[p].status,
                       !.sAfter = findById(CollectionIn(posts', comments', r.kind),
                                           r.id).votes,
                       !.vAfter = Brief(findOneIn(votes', r.user, r.id, r.kind))]]
            ELSE opened
    IN hist' = closed

\* epoch: the store at the last moment no request was in flight, and the
\* requests received since then, in order of arrival.
EpochObserve(p) ==
    IF nreq' = nreq THEN UNCHANGED epoch
    ELSE IF Quiet
    THEN epoch' = [base |-> [posts |-> posts, comments |-> comments, votes |-> votes],
                   ops |-> <<[p |-> p, req |-> req'[p]]>>]
    ELSE epoch' = [epoch EXCEPT !.ops = Append(@, [p |-> p, req |-> req'[p]])]

\* deleted: the items a delete request named and answered 200 for.
DeletedObserve(p) ==
    IF pc[p] # "done" /\ pc'[p] = "done" /\ req'[p].op = "delete"
       /\ res'[p].status = 200
    THEN deleted' = deleted \cup {[kind |-> req'[p].kind, id |-> req'[p].id]}
    ELSE UNCHANGED deleted

\* The users and values of the Vote records of an item.
VotesByIn(V, kind, id) ==
    {[user |-> v.user, value |-> v.value] :
        v \in {w \in V : w.item = id /\ w.itemType = kind}}

\* trace: the vote requests served one after the other for one item since
\* the last request of another kind or for another item (the last four of
\* them), each with the item's stored score and Vote records before and
\* after it and the score the response carried.
TraceEntry(r) ==
    [user |-> r.user, kind |-> r.kind, item |-> r.id, type |-> r.voteType,
     status |-> 0, returned |-> 0,
     sBefore |-> findById(Collection(r.kind), r.id).votes,
     rBefore |-> VotesByIn(votes, r.kind, r.id),
     sAfter |-> 0, rAfter |-> {}]

SameItem(e, r) == e.kind = r.kind /\ e.item = r.id

LastFour(h) == IF Len(h) > 4 THEN SubSeq(h, Len(h) - 3, Len(h)) ELSE h

TraceObserve(p) ==
    LET r == req'[p]
        opened ==
            IF nreq' = nreq THEN trace
            ELSE IF r.op # "vote" THEN <<>>
            ELSE IF trace # <<>> /\ SameItem(trace[1], r)
            THEN LastFour(Append(trace, TraceEntry(r)))
            ELSE <<TraceEntry(r)>>
        closed ==
            IF pc'[p] = "done" /\ r.op = "vote"
            THEN [opened EXCEPT ![Len(opened)] =
                    [@ EXCEPT
                       !.status = res'[p].status,
                       !.returned = res'[p].votes,
                       !.sAfter = findById(CollectionIn(posts', comments', r.kind),
                                           r.id).votes,
                       !.rAfter = VotesByIn(votes', r.kind, r.id)]]
            ELSE opened
    IN trace' = closed

\* ---------------------------------------------------------------- system

Init ==
    /\ posts = {}
    /\ comments = {}
    /\ votes = {}
    /\ nextId = 1
    /\ nreq = 0
    /\ pc = [p \in Procs |-> "idle"]
    /\ req = [p \in Procs |-> NoReq]
    /\ doc = [p \in Procs |-> NoDoc]
    /\ vote = [p \in Procs |-> NoVote]
    /\ voteChange = [p \in Procs |-> 0]
    /\ postKarma = [p \in Procs |-> 0]
    /\ res = [p \in Procs |-> NoRes]
    /\ hist = <<>>
    /\ epoch = [base |-> [posts |-> {}, comments |-> {}, votes |-> {}], ops |-> <<>>]
    /\ deleted = {}
    /\ trace = <<>>

\* A step of the handler in slot 1, seen by the observer of SpecSeq.
Serial(A) == A /\ HistObserve(1) /\ DeletedObserve(1) /\ UNCHANGED <<epoch, trace>>

\* A step of the handler in slot p, seen by the observer of Spec.
Concurrent(p, A) == A /\ EpochObserve(p) /\ UNCHANGED <<hist, deleted, trace>>

\* A step of the handler in slot 1, seen by the observer of SpecVotes.
Scenario(A) == A /\ TraceObserve(1) /\ UNCHANGED <<hist, epoch, deleted>>

\* A request may arrive: one at a time, or at any idle slot.
SeqArrive == nreq < MaxSeqReqs /\ Quiet
ConcArrive == nreq < MaxReqs

\* Requests served one after the other, the store always available.
SeqNext ==
    \/ \E u \in Users, k \in Kinds, i \in ItemIds, t \in VoteTypes :
          Serial(SeqArrive /\ VoteStart(1, u, k, i, t))
    \/ \E u \in Users :
          Serial(SeqArrive /\ CreatePostStart(1, u))
    \/ \E u \in Users, i \in ItemIds :
          Serial(SeqArrive /\ CreateCommentStart(1, u, i))
    \/ \E u \in Users, i \in ItemIds :
          Serial(SeqArrive /\ DeletePostStart(1, u, i))
    \/ \E u \in Users, i \in ItemIds :
          Serial(SeqArrive /\ DeleteCommentStart(1, u, i))
    \/ Serial(VoteFindItem(1))
    \/ Serial(VoteFindVote(1))
    \/ Serial(VoteRemove(1))
    \/ Serial(VoteUpdate(1))
    \/ Serial(VoteInsert(1))
    \/ Serial(VoteSaveItem(1))
    \/ Serial(CreatePostFindCommunity(1))
    \/ Serial(CreatePostSave(1))
    \/ Serial(CreatePostSaveVote(1))
    \/ Serial(CreatePostSaveVotes(1))
    \/ Serial(CreateCommentFindPost(1))
    \/ Serial(CreateCommentSave(1))
    \/ Serial(CreateCommentSaveVote(1))
    \/ Serial(CreateCommentPopulate(1))
    \/ Serial(DeletePostFind(1))
    \/ Serial(DeletePostComments(1))
    \/ Serial(DeletePostVotes(1))
    \/ Serial(DeletePostRemove(1))
    \/ Serial(DeleteCommentFind(1))
    \/ Serial(DeleteCommentVotes(1))
    \/ Serial(DeleteCommentRemove(1))
    \/ \E u \in Users :
          Serial(SeqArrive /\ KarmaStart(1, u))
    \/ Serial(KarmaFindUser(1))
    \/ Serial(KarmaFindPosts(1))
    \/ Serial(KarmaFindComments(1))

SpecSeq == Init /\ [][SeqNext]_vars

\* Concurrent requests that change the store (every handler but the karma
\* read), the store always available.
Next ==
    \/ \E p \in Procs, u \in Users, k \in Kinds, i \in ItemIds, t \in VoteTypes :
          Concurrent(p, ConcArrive /\ VoteStart(p, u, k, i, t))
    \/ \E p \in Procs, u \in Users :
          Concurrent(p, ConcArrive /\ CreatePostStart(p, u))
    \/ \E p \in Procs, u \in Users, i \in ItemIds :
          Concurrent(p, ConcArrive /\ CreateCommentStart(p, u, i))
    \/ \E p \in Procs, u \in Users, i \in ItemIds :
          Concurrent(p, ConcArrive /\ DeletePostStart(p, u, i))
    \/ \E p \in Procs, u \in Users, i \in ItemIds :
          Concurrent(p, ConcArrive /\ DeleteCommentStart(p, u, i))
    \/ \E p \in Procs : Concurrent(p, VoteFindItem(p))
    \/ \E p \in Procs : Concurrent(p, VoteFindVote(p))
    \/ \E p \in Procs : Concurrent(p, VoteRemove(p))
    \/ \E p \in Procs : Concurrent(p, VoteUpdate(p))
    \/ \E p \in Procs : Concurrent(p, VoteInsert(p))
    \/ \E p \in Procs : Concurrent(p, VoteSaveItem(p))
    \/ \E p \in Procs : Concurrent(p, CreatePostFindCommunity(p))
    \/ \E p \in Procs : Concurrent(p, CreatePostSave(p))
    \/ \E p \in Procs : Concurrent(p, CreatePostSaveVote(p))
    \/ \E p \in Procs : Concurrent(p, CreatePostSaveVotes(p))
    \/ \E p \in Procs : Concurrent(p, CreateCommentFindPost(p))
    \/ \E p \in Procs : Concurrent(p, CreateCommentSave(p))
    \/ \E p \in Procs : Concurrent(p, CreateCommentSaveVote(p))
    \/ \E p \in Procs : Concurrent(p, CreateCommentPopulate(p))
    \/ \E p \in Procs : Concurrent(p, DeletePostFind(p))
    \/ \E p \in Procs : Concurrent(p, DeletePostComments(p))
    \/ \E p \in Procs : Concurrent(p, DeletePostVotes(p))
    \/ \E p \in Procs : Concurrent(p, DeletePostRemove(p))
    \/ \E p \in Procs : Concurrent(p, DeleteCommentFind(p))
    \/ \E p \in Procs : Concurrent(p, DeleteCommentVotes(p))
    \/ \E p \in Procs : Concurrent(p, DeleteCommentRemove(p))

Spec == Init /\ [][Next]_vars

\* Requests served one after the other, any store operation may fail.
FaultNext ==
    \/ \E u \in Users, k \in Kinds, i \in ItemIds, t \in VoteTypes :
          Serial(SeqArrive /\ VoteStart(1, u, k, i, t))
    \/ \E u \in Users :
          Serial(SeqArrive /\ CreatePostStart(1, u))
    \/ \E u \in Users, i \in ItemIds :
          Serial(SeqArrive /\ CreateCommentStart(1, u, i))
    \/ \E u \in Users, i \in ItemIds :
          Serial(SeqArrive /\ DeletePostStart(1, u, i))
    \/ \E u \in Users, i \in ItemIds :
          Serial(SeqArrive /\ DeleteCommentStart(1, u, i))
    \/ Serial(VoteFindItem(1))
    \/ Serial(VoteFindVote(1))
    \/ Serial(VoteRemove(1))
    \/ Serial(VoteUpdate(1))
    \/ Serial(VoteInsert(1))
    \/ Serial(VoteSaveItem(1))
    \/ Serial(CreatePostFindCommunity(1))
    \/ Serial(CreatePostSave(1))
    \/ Serial(CreatePostSaveVote(1))
    \/ Serial(CreatePostSaveVotes(1))
    \/ Serial(CreateCommentFindPost(1))
    \/ Serial(CreateCommentSave(1))
    \/ Serial(CreateCommentSaveVote(1))
    \/ Serial(CreateCommentPopulate(1))
    \/ Serial(DeletePostFind(1))
    \/ Serial(DeletePostComments(1))
    \/ Serial(DeletePostVotes(1))
    \/ Serial(DeletePostRemove(1))
    \/ Serial(DeleteCommentFind(1))
    \/ Serial(DeleteCommentVotes(1))
    \/ Serial(DeleteCommentRemove(1))
    \/ \E u \in Users :
          Serial(SeqArrive /\ KarmaStart(1, u))
    \/ Serial(KarmaFindUser(1))
    \/ Serial(KarmaFindPosts(1))
    \/ Serial(KarmaFindComments(1))
    \/ Serial(StoreError(1))
    \/ Serial(KarmaStoreError(1))

SpecFault == Init /\ [][FaultNext]_vars

\* A store operation of the handler completes: the event loop resumes the
\* handler at its await.
StoreReplies ==
    \/ Serial(VoteFindItem(1))
    \/ Serial(VoteFindVote(1))
    \/ Serial(VoteRemove(1))
    \/ Serial(VoteUpdate(1))
    \/ Serial(VoteInsert(1))
    \/ Serial(VoteSaveItem(1))
    \/ Serial(CreatePostFindCommunity(1))
    \/ Serial(CreatePostSave(1))
    \/ Serial(CreatePostSaveVote(1))
    \/ Serial(CreatePostSaveVotes(1))
    \/ Serial(CreateCommentFindPost(1))
    \/ Serial(CreateCommentSave(1))
    \/ Serial(CreateCommentSaveVote(1))
    \/ Serial(CreateCommentPopulate(1))
    \/ Serial(DeletePostFind(1))
    \/ Serial(DeletePostComments(1))
    \/ Serial(DeletePostVotes(1))
    \/ Serial(DeletePostRemove(1))
    \/ Serial(DeleteCommentFind(1))
    \/ Serial(DeleteCommentVotes(1))
    \/ Serial(DeleteCommentRemove(1))
    \/ Serial(KarmaFindUser(1))
    \/ Serial(KarmaFindPosts(1))
    \/ Serial(KarmaFindComments(1))

\* Sequential requests with store failures, every store operation issued
\* being answered in the end (with its result, or with the failure).
SpecLive == Init /\ [][FaultNext]_vars /\ WF_vars(StoreReplies)

\* Posts created and voted on, one request after the other: the runs of
\* vote requests on one post that the observer trace follows.
VotesArrive == nreq < MaxVoteReqs /\ Quiet

VotesNext ==
    \/ \E u \in Users, i \in ItemIds, t \in VoteTypes :
          Scenario(VotesArrive /\ VoteStart(1, u, "post", i, t))
    \/ \E u \in Users :
          Scenario(VotesArrive /\ CreatePostStart(1, u))
    \/ Scenario(VoteFindItem(1))
    \/ Scenario(VoteFindVote(1))
    \/ Scenario(VoteRemove(1))
    \/ Scenario(VoteUpdate(1))
    \/ Scenario(VoteInsert(1))
    \/ Scenario(VoteSaveItem(1))
    \/ Scenario(CreatePostFindCommunity(1))
    \/ Scenario(CreatePostSave(1))
    \/ Scenario(CreatePostSaveVote(1))
    \/ Scenario(CreatePostSaveVotes(1))

SpecVotes == Init /\ [][VotesNext]_vars

\* Posts created one at a time and voted on by concurrent handlers: the
\* vote requests that run side by side on two posts.
ApartArrive == nreq < MaxApartReqs
CreateRunning == \E q \in Procs : ~ Idle(q) /\ req[q].op = "create"

ApartNext ==
    \/ \E p \in Procs, u \in Users, i \in ItemIds, t \in VoteTypes :
          Concurrent(p, ApartArrive /\ ~ CreateRunning
                           /\ VoteStart(p, u, "post", i, t))
    \/ \E u \in Users :
          Concurrent(1, ApartArrive /\ Quiet /\ CreatePostStart(1, u))
    \/ \E p \in Procs : Concurrent(p, VoteFindItem(p))
    \/ \E p \in Procs : Concurrent(p, VoteFindVote(p))
    \/ \E p \in Procs : Concurrent(p, VoteRemove(p))
    \/ \E p \in Procs : Concurrent(p, VoteUpdate(p))
    \/ \E p \in Procs : Concurrent(p, VoteInsert(p))
    \/ \E p \in Procs : Concurrent(p, VoteSaveItem(p))
    \/ Concurrent(1, CreatePostFindCommunity(1))
    \/ Concurrent(1, CreatePostSave(1))
    \/ Concurrent(1, CreatePostSaveVote(1))
    \/ Concurrent(1, CreatePostSaveVotes(1))

SpecApart == Init /\ [][ApartNext]_vars

\* ---------------------------------------------------------------- claims

Last == hist[Len(hist)]
Score(kind, id) == findById(Collection(kind), id).votes
VoteSum(kind, id) == SumValues(VotesOf(kind, id))

\* The last request served was a vote request and it succeeded.
VoteSucceeded == hist # <<>> /\ Quiet /\ Last.status = 200

\* C1: in a sequential execution, after every successful vote request the
\* item's stored score equals the sum of the values of the Vote records of
\* that item.
C1_ScoreIsSumAfterVote ==
    VoteSucceeded =>
        /\ Exists(Collection(Last.kind), Last.item)
        /\ Score(Last.kind, Last.item) = VoteSum(Last.kind, Last.item)

\* A user flipped a vote on an item that carries two votes.
C1_Witness ==
    /\ VoteSucceeded
    /\ Last.vBefore.value # 0
    /\ Last.type = - Last.vBefore.value
    /\ Cardinality(VotesOf(Last.kind, Last.item)) = 2

\* The transition table of the vote state machine: the vote value after the
\* request (0: no record) and the score delta, for the existing value v
\* (0: no record) and the requested type t.
TableValue(v, t) == t
TableDelta(v, t) ==
    IF v = 0 THEN t
    ELSE IF t = 0 THEN - v
    ELSE IF t = v THEN 0
    ELSE -2 * v

\* The store action of the table, read off the user's vote record before
\* and after the request.
TableAction(e) ==
    IF e.vBefore.value = 0
    THEN IF e.type = 0
         THEN e.vAfter = Brief(NoVote)
         ELSE e.vAfter.id # 0 /\ e.vAfter.value = e.type
    ELSE IF e.type = 0
    THEN e.vAfter = Brief(NoVote)
    ELSE IF e.type = e.vBefore.value
    THEN e.vAfter = e.vBefore
    ELSE e.vAfter = [id |-> e.vBefore.id, value |-> - e.vBefore.value]

FollowsTable(e) ==
    /\ TableAction(e)
    /\ e.vAfter.value = TableValue(e.vBefore.value, e.type)
    /\ e.sAfter - e.sBefore = TableDelta(e.vBefore.value, e.type)

Served(k) == k \in 1..Len(hist) /\ (k < Len(hist) \/ Quiet) /\ hist[k].status = 200

\* C5: every successful vote request performs the store action and the
\* score delta of the transition table, for each existing vote state and
\* each requested type.
C5_TransitionTable ==
    \A k \in 1..Len(hist) : Served(k) => FollowsTable(hist[k])

\* One user inserted, flipped and then retracted a vote.
C5_Witness ==
    /\ Len(hist) = 3
    /\ Served(3)
    /\ hist[1].vBefore.value = 0 /\ hist[1].type # 0
    /\ hist[2].type = - hist[1].type
    /\ hist[3].type = 0

\* C9: a non-zero vote type applied twice in a row by one user to one item:
\* the second request changes neither the score nor the Vote record.
C9_RevoteIsNoOp ==
    \A k \in 2..Len(hist) :
        (/\ Served(k - 1) /\ Served(k)
         /\ hist[k].type # 0
         /\ hist[k].type = hist[k - 1].type)
        => /\ hist[k].sAfter = hist[k].sBefore
           /\ hist[k].vAfter = hist[k].vBefore
           /\ hist[k].vAfter.value = hist[k].type

\* A user with no vote voted -1 twice in a row.
C9_Witness ==
    /\ Len(hist) >= 2
    /\ Served(1) /\ Served(2)
    /\ hist[1].vBefore.value = 0
    /\ hist[1].type = -1 /\ hist[2].type = -1

\* The run up-vote, retract, up-vote by a user who had no vote on the item.
UpRetractUp ==
    /\ Len(hist) = 3
    /\ Served(1) /\ Served(2) /\ Served(3)
    /\ hist[1].vBefore.value = 0
    /\ hist[1].type = 1 /\ hist[2].type = 0 /\ hist[3].type = 1

\* C10: up-vote, retract, up-vote leaves the score and the user's vote
\* (its existence and value) as the single first up-vote left them.
C10_RoundTrip ==
    UpRetractUp =>
        /\ hist[3].sAfter = hist[1].sAfter
        /\ hist[3].vAfter.value = hist[1].vAfter.value
        /\ hist[3].vAfter.value = 1

\* The round trip was made on an item that carries another user's vote.
C10_Witness ==
    /\ UpRetractUp
    /\ Cardinality(VotesOf(Last.kind, Last.item)) = 2

\* Two vote requests for one item, received by two handlers while the other
\* was in flight or about to start, and both answered with the new score.
Op(k) == epoch.ops[k].req
TwoVotes ==
    /\ Quiet
    /\ Len(epoch.ops) = 2
    /\ epoch.ops[1].p # epoch.ops[2].p
    /\ Op(1).op = "vote" /\ Op(2).op = "vote"
    /\ Op(1).kind = Op(2).kind /\ Op(1).id = Op(2).id
    /\ \A k \in 1..2 : res[epoch.ops[k].p].status = 200

\* The item's score and votes when the first of the two was received.
BaseScore(kind, id) ==
    findById(CollectionIn(epoch.base.posts, epoch.base.comments, kind), id).votes
BaseVoteSum(kind, id) ==
    SumValues({v \in epoch.base.votes : v.item = id /\ v.itemType = kind})
BaseValue(user, kind, id) == findOneIn(epoch.base.votes, user, id, kind).value

\* C2: concurrent vote requests of distinct users on one item: once all have
\* completed, the stored score equals the sum of the item's vote values.
C2_ConcurrentVotesConverge ==
    (/\ TwoVotes
     /\ Op(1).user # Op(2).user
     /\ BaseScore(Op(1).kind, Op(1).id) = BaseVoteSum(Op(1).kind, Op(1).id))
    => Score(Op(1).kind, Op(1).id) = VoteSum(Op(1).kind, Op(1).id)

\* The score and the user's vote value after serving type t1 and then type
\* t2 from the base state, by the transition table.
SerialResult(user, kind, id, t1, t2) ==
    [score |-> BaseScore(kind, id)
                 + TableDelta(BaseValue(user, kind, id), t1)
                 + TableDelta(TableValue(BaseValue(user, kind, id), t1), t2),
     value |-> TableValue(TableValue(BaseValue(user, kind, id), t1), t2)]

\* C3: two concurrent vote requests of one user on one item leave the user's
\* vote and the item's score as serving them one after the other, in one of
\* the two orders, would.
C3_SameUserSerializable ==
    (TwoVotes /\ Op(1).user = Op(2).user)
    => LET u == Op(1).user
           k == Op(1).kind
           i == Op(1).id
           final == [score |-> Score(k, i), value |-> findOne(u, i, k).value]
       IN \/ final = SerialResult(u, k, i, Op(1).voteType, Op(2).voteType)
          \/ final = SerialResult(u, k, i, Op(2).voteType, Op(1).voteType)

\* C4: at most one Vote record exists for each (user, item) pair.
C4_OneVotePerUserAndItem ==
    \A v \in votes, w \in votes : (v.user = w.user /\ v.item = w.item) => v = w

\* A second insert for a pair was rejected while the first one's vote stands.
C4_Witness ==
    \E p \in Procs :
        /\ res[p].err = "E11000"
        /\ findOne(req[p].user, req[p].id, req[p].kind) # NoVote

\* C6: in every state every existing item's score equals the sum of the
\* values of the Vote records of that item.
C6_ScoreIsSumAlways ==
    \A k \in Kinds : \A d \in Collection(k) : d.votes = VoteSum(k, d.id)

\* C7: a vote request that fails leaves the item's score and the user's vote
\* as they were before it, or as the completed request leaves them.
C7_FailedVoteIsAllOrNothing ==
    (hist # <<>> /\ Quiet /\ Last.status = 500)
    => \/ Last.sAfter = Last.sBefore /\ Last.vAfter = Last.vBefore
       \/ FollowsTable(Last)

\* C8: the rejection of a vote insert by the unique (user, item) index is
\* never the answer to a vote request.
C8_DuplicateVoteNotSurfaced ==
    (\A k \in 1..Len(epoch.ops) : Op(k).op = "vote")
    => \A p \in Procs : ~ (req[p].op = "vote" /\ res[p].err = "E11000")

\* ------------------------------------------------------------ item creation

\* The last request created an item and was answered with the new document.
Created200 == pc[1] = "done" /\ req[1].op = "create" /\ res[1].status = 200

VotesBy(kind, id) == VotesByIn(votes, kind, id)

\* C11: after a post or a comment is successfully created by user U, the
\* new item has score 1 and there is exactly one Vote record of it, the
\* author's +1.
C11_CreatedWithSelfUpvote ==
    Created200 =>
        LET d == findById(Collection(req[1].kind), res[1].id)
        IN /\ d # NoDoc
           /\ d.author = req[1].user
           /\ d.votes = 1
           /\ Cardinality(VotesOf(req[1].kind, d.id)) = 1
           /\ VotesBy(req[1].kind, d.id) = {[user |-> req[1].user, value |-> 1]}

\* A comment was created on a post that carries votes of its own.
C11_Witness ==
    /\ Created200
    /\ req[1].kind = "comment"
    /\ res[1].id # 0
    /\ VotesOf("post", req[1].id) # {}

\* ------------------------------------------------------------ item deletion

\* The last request deleted an item and was answered 200.
Deleted200 == pc[1] = "done" /\ req[1].op = "delete" /\ res[1].status = 200

\* The last request read a user's karma and was answered 200.
Karma200 == pc[1] = "done" /\ req[1].op = "karma" /\ res[1].status = 200

\* The documents of a collection that no delete request has removed.
NotDeleted(coll, kind) == {d \in coll : [kind |-> kind, id |-> d.id] \notin deleted}

\* C12: once the deletion of an item has been answered 200, no Vote record
\* of that item remains, and every karma computed afterwards is the sum
\* over the user's items other than the deleted ones.
C12_DeleteRemovesVotesAndKarma ==
    /\ \A x \in deleted :
         /\ VotesOf(x.kind, x.id) = {}
         /\ ~ Exists(Collection(x.kind), x.id)
    /\ Karma200 =>
         res[1].votes = SumVotes(findByAuthor(NotDeleted(posts, "post"), req[1].user))
                        + SumVotes(findByAuthor(NotDeleted(comments, "comment"),
                                                req[1].user))

\* A comment was deleted and the karma of a user who still has a post was
\* read afterwards.
C12_Witness ==
    /\ Karma200
    /\ deleted # {}
    /\ res[1].votes # 0
    /\ votes # {}

\* C13: after a successful post deletion no Vote record references a
\* comment that belonged to the deleted post (its comments are gone, so no
\* Vote record of kind comment is left without its comment).
C13_PostDeleteRemovesCommentVotes ==
    (Deleted200 /\ req[1].kind = "post") =>
        \A v \in votes : v.itemType = "comment" => Exists(comments, v.item)

\* ------------------------------------------------------- rejected requests

\* A vote request arrives in this step.
VoteArrives == nreq' = nreq + 1 /\ req'[1].op = "vote"

\* C14: a vote request whose type is not one of -1, 0, +1 is answered 400
\* at once, and no Vote record and no score is changed by it.
C14_InvalidVoteTypeRejected ==
    [][(VoteArrives /\ req'[1].voteType \notin {-1, 0, 1}) =>
          /\ pc'[1] = "done"
          /\ res'[1].status = 400
          /\ res'[1].err = "Invalid vote type"
          /\ store' = store]_vars

\* Vote type 2 was refused for an existing item that carries votes.
C14_Witness ==
    /\ pc[1] = "done"
    /\ req[1].op = "vote"
    /\ req[1].voteType = 2
    /\ res[1].status = 400
    /\ Exists(Collection(req[1].kind), req[1].id)
    /\ VotesOf(req[1].kind, req[1].id) # {}

\* C15: a vote request with a valid type for an item that is not stored is
\* answered 404 by the handler's first store operation: nothing is looked
\* up or computed for the transition before it, and no Vote record and no
\* score is created, changed or deleted.
C15_MissingItemNotFound ==
    [][/\ (VoteArrives /\ req'[1].voteType \in {-1, 0, 1}) =>
            /\ pc'[1] = "v_findItem"
            /\ store' = store
            /\ vote' = vote
            /\ voteChange' = voteChange
       /\ (pc[1] = "v_findItem"
           /\ ~ Exists(Collection(req[1].kind), req[1].id)) =>
            /\ pc'[1] = "done"
            /\ res'[1].status = 404
            /\ store' = store
            /\ vote[1] = NoVote
            /\ voteChange[1] = 0]_vars

\* A vote on an item that had been deleted was answered 404.
C15_Witness ==
    /\ pc[1] = "done"
    /\ req[1].op = "vote"
    /\ req[1].voteType \in {-1, 0, 1}
    /\ res[1].status = 404
    /\ [kind |-> req[1].kind, id |-> req[1].id] \in deleted

\* -------------------------------------------------------------------- karma

\* The items a user authored, posts and comments together.
Authored(u) == {d \in posts \cup comments : d.author = u}

\* C16: a karma read answered 200 returns the sum of the scores stored at
\* that moment for the posts and comments the user authored, 0 when there
\* are none; the scores are read anew by each request, so the votes served
\* before it are reflected.
C16_KarmaIsSumOfScores ==
    Karma200 =>
        /\ res[1].votes = SumVotes(Authored(req[1].user))
        /\ Authored(req[1].user) = {} => res[1].votes = 0

\* The karma of a user with a post and a comment was read after a vote had
\* changed the score of one of them: the two scores cancel.
C16_Witness ==
    /\ Karma200
    /\ findByAuthor(posts, req[1].user) # {}
    /\ findByAuthor(comments, req[1].user) # {}
    /\ res[1].votes = 0

\* ------------------------------------------------------- the vote response

\* C17: the votes field of a successful vote response is the item's score
\* after the request: the score stored once the request's write is applied,
\* which is the score stored before the request plus the delta of the
\* transition.
C17_ResponseIsNewScore ==
    VoteSucceeded =>
        /\ res[1].votes = Score(Last.kind, Last.item)
        /\ res[1].votes = Last.sAfter
        /\ res[1].votes = Last.sBefore + TableDelta(Last.vBefore.value, Last.type)

\* An upvote was flipped to a downvote and the response carried the score
\* two below the one before.
C17_Witness ==
    /\ VoteSucceeded
    /\ Last.vBefore.value = 1
    /\ Last.type = -1
    /\ res[1].votes = Last.sBefore - 2

\* ---------------------------------------------------------------- scenario B

\* The last four requests served were U1 +1, U2 -1, U1 -1, U1 0 on one
\* item, all answered 200, and before the first of them the item had score
\* 0 and no vote of U1 or U2.
ScenarioB(U1, U2) ==
    /\ Len(trace) = 4
    /\ Quiet
    /\ \A k \in 1..4 : trace[k].status = 200
    /\ <<trace[1].user, trace[2].user, trace[3].user, trace[4].user>>
         = <<U1, U2, U1, U1>>
    /\ <<trace[1].type, trace[2].type, trace[3].type, trace[4].type>>
         = <<1, -1, -1, 0>>
    /\ trace[1].sBefore = 0
    /\ \A r \in trace[1].rBefore : r.user \notin {U1, U2}

\* C18: from an item with score 0 on which U1 and U2 have no vote, the
\* requests U1 +1, U2 -1, U1 -1, U1 0 served in this order yield the scores
\* 1, 0, -2, -1, and the only Vote record they leave on the item is U2's -1.
C18_ScenarioB ==
    \A U1, U2 \in Users :
        (U1 # U2 /\ ScenarioB(U1, U2)) =>
            /\ <<trace[1].returned, trace[2].returned, trace[3].returned,
                 trace[4].returned>> = <<1, 0, -2, -1>>
            /\ <<trace[1].sAfter, trace[2].sAfter, trace[3].sAfter,
                 trace[4].sAfter>> = <<1, 0, -2, -1>>
            /\ Score(trace[4].kind, trace[4].item) = -1
            /\ VotesBy(trace[4].kind, trace[4].item)
                 = trace[1].rBefore \cup {[user |-> U2, value |-> -1]}

\* The four requests were served on a post whose author had retracted the
\* vote of the creation, so that no Vote record was left on it.
C18_Witness ==
    /\ \E U1, U2 \in Users : U1 # U2 /\ ScenarioB(U1, U2)
    /\ trace[1].rBefore = {}
    /\ Cardinality(VotesOf(trace[4].kind, trace[4].item)) = 1

\* ------------------------------------------------------------- vote values

\* C19: every stored Vote record has value -1 or +1, and so has every
\* record a handler is about to insert or update; a request for vote type 0
\* never reaches the insert or the update of a record (it removes the
\* record it found, or goes on without one).
C19_NoZeroVoteStored ==
    /\ \A v \in votes : v.value \in {-1, 1}
    /\ \A p \in Procs :
         pc[p] \in {"v_insert", "v_update"} =>
            /\ req[p].voteType # 0
            /\ vote[p].value \in {-1, 1}

\* Two handlers are past the vote lookup at once, one retracting a vote and
\* one about to store a downvote.
C19_Witness ==
    \E p, q \in Procs :
        /\ pc[p] = "v_remove" /\ req[p].voteType = 0
        /\ pc[q] \in {"v_insert", "v_update"} /\ vote[q].value = -1
        /\ votes # {}

\* ------------------------------------------------------- order of deletion

\* The handler of a delete request has found the item and is deleting, or
\* has answered 200.
Deleting ==
    /\ req[1].op = "delete"
    /\ \/ pc[1] \in {"dp_deleteComments", "dp_deleteVotes", "dp_remove",
                     "dc_deleteVotes", "dc_remove"}
       \/ Deleted200

\* C20: while an item is being deleted, with no vote request running
\* beside the deletion, and after it, the item is never gone while a Vote
\* record of it is still stored: its votes are removed before the item is.
C20_VotesRemovedBeforeItem ==
    Deleting =>
        (~ Exists(Collection(req[1].kind), req[1].id)
            => VotesOf(req[1].kind, req[1].id) = {})

\* The votes of a post with a nonzero score are gone while the post is
\* still stored, its removal being the next step.
C20_Witness ==
    /\ pc[1] = "dp_remove"
    /\ Exists(posts, req[1].id)
    /\ doc[1].votes # 0
    /\ VotesOf("post", req[1].id) = {}

\* ------------------------------------------------- vote racing with delete

\* Since the system was last quiet, a vote request and a delete request for
\* one item were served side by side; both have finished, and the item was
\* deleted.
VoteAndDelete(a, b) ==
    /\ Quiet
    /\ Len(epoch.ops) = 2
    /\ {a, b} = {1, 2}
    /\ epoch.ops[1].p # epoch.ops[2].p
    /\ Op(a).op = "vote" /\ Op(b).op = "delete"
    /\ Op(a).kind = Op(b).kind /\ Op(a).id = Op(b).id
    /\ res[epoch.ops[b].p].status = 200

\* C21: when a vote request on an item runs beside the deletion of that
\* item, no Vote record of the item is stored once both have finished.
C21_NoVoteSurvivesDelete ==
    \A a, b \in 1..2 :
        VoteAndDelete(a, b) => VotesOf(Op(b).kind, Op(b).id) = {}

\* ------------------------------------------------- votes on different items

\* Since the system was last quiet, two vote requests for different items
\* were served side by side, and both have finished.
VotesApart ==
    /\ Quiet
    /\ Len(epoch.ops) = 2
    /\ epoch.ops[1].p # epoch.ops[2].p
    /\ Op(1).op = "vote" /\ Op(2).op = "vote"
    /\ <<Op(1).kind, Op(1).id>> # <<Op(2).kind, Op(2).id>>

BaseCollection(kind) == CollectionIn(epoch.base.posts, epoch.base.comments, kind)
BaseVotesBy(kind, id) == VotesByIn(epoch.base.votes, kind, id)

\* What serving request r alone from the base state leaves: the response
\* status, the item's score and the item's votes, by the transition table.
Alone(r) ==
    LET v == BaseValue(r.user, r.kind, r.id)
        others == {x \in BaseVotesBy(r.kind, r.id) : x.user # r.user}
    IN IF ~ (r.voteType \in {-1, 0, 1})
       THEN [status |-> 400, score |-> BaseScore(r.kind, r.id),
             by |-> BaseVotesBy(r.kind, r.id)]
       ELSE IF ~ Exists(BaseCollection(r.kind), r.id)
       THEN [status |-> 404, score |-> 0, by |-> BaseVotesBy(r.kind, r.id)]
       ELSE [status |-> 200,
             score |-> BaseScore(r.kind, r.id) + TableDelta(v, r.voteType),
             by |-> others \cup
                    (IF TableValue(v, r.voteType) = 0 THEN {}
                     ELSE {[user |-> r.user,
                            value |-> TableValue(v, r.voteType)]})]

\* C22: two vote requests for different items served side by side leave,
\* under every interleaving, the scores and Vote records that serving them
\* one after the other leaves (each item as its own request alone leaves
\* it, and nothing else changed), with the same responses.
C22_VotesOnDifferentItemsIndependent ==
    VotesApart =>
        /\ \A k \in 1..2 :
             LET r == Op(k) IN
             /\ res[epoch.ops[k].p].status = Alone(r).status
             /\ Score(r.kind, r.id) = Alone(r).score
             /\ VotesBy(r.kind, r.id) = Alone(r).by
        /\ {d.id : d \in posts} = {d.id : d \in epoch.base.posts}
        /\ comments = epoch.base.comments
        /\ \A d \in posts :
             (\A k \in 1..2 : <<Op(k).kind, Op(k).id>> # <<"post", d.id>>)
                => d \in epoch.base.posts
        /\ Cardinality(votes) = Cardinality({<<v.user, v.item, v.itemType>> : v \in votes})

\* One user flipped the vote on one post while the other user's first vote
\* on the other post was being stored.
C22_Witness ==
    /\ VotesApart
    /\ \A k \in 1..2 : res[epoch.ops[k].p].status = 200
    /\ \E k \in 1..2 :
         /\ BaseValue(Op(k).user, Op(k).kind, Op(k).id) = 1
         /\ Op(k).voteType = -1
    /\ \E k \in 1..2 :
         /\ BaseValue(Op(k).user, Op(k).kind, Op(k).id) = 0
         /\ Op(k).voteType # 0
    /\ Op(1).user # Op(2).user

\* ------------------------------------------------- store failure and karma

\* C23: a karma read during which the store failed is answered with an
\* error (5xx), and a karma read answered 200 carries the sum of the scores
\* of the user's items.
C23_KarmaFailurePropagates ==
    (pc[1] = "done" /\ req[1].op = "karma") =>
        /\ res[1].err \in {"StoreUnavailable", "Error calculating karma"}
              => res[1].status >= 500
        /\ res[1].status = 200 => res[1].votes = Karma(req[1].user)

\* ------------------------------------------- retracting the creation's vote

\* Request k of the run is the author's retraction (type 0) of the upvote
\* that the creation of the item stored, the item's score still being the 1
\* of the creation.
AuthorRetracts(k) ==
    /\ Served(k)
    /\ hist[k].type = 0
    /\ hist[k].vBefore.value = 1
    /\ hist[k].sBefore = 1
    /\ findById(Collection(hist[k].kind), hist[k].item).author = hist[k].user

\* C24: the author's vote request of type 0 on an item as its creation left
\* it removes the author's upvote and leaves score 0 and no Vote record of
\* the author; the author's request of type -1 that follows yields score -1.
C24_AuthorRetractsThenDownvotes ==
    \A k \in 1..Len(hist) :
        AuthorRetracts(k) =>
            /\ hist[k].sAfter = 0
            /\ hist[k].vAfter = Brief(NoVote)
            /\ (Served(k + 1) /\ hist[k + 1].type = -1) =>
                  /\ hist[k + 1].vBefore = Brief(NoVote)
                  /\ hist[k + 1].sAfter = -1
                  /\ hist[k + 1].vAfter.value = -1

\* The author of a comment retracted the upvote of its creation and then
\* downvoted it.
C24_Witness ==
    /\ Len(hist) = 2
    /\ AuthorRetracts(1)
    /\ Served(2)
    /\ hist[2].type = -1
    /\ hist[2].kind = "comment"
    /\ Score("comment", hist[2].item) = -1

\* ---------------------------------------------------- frame of a vote request

\* The handler in slot p takes a step of a vote request.
VoteStep(p) ==
    \/ nreq' = nreq + 1 /\ req'[p] # req[p] /\ req'[p].op = "vote"
    \/ /\ req[p].op = "vote"
       /\ pc[p] \in {"v_findItem", "v_findVote", "v_remove", "v_update",
                     "v_insert", "v_saveItem"}
       /\ pc'[p] # pc[p]

\* A document but for its score.
NoScore(d) == [id |-> d.id, author |-> d.author, post |-> d.post]

\* The store is changed at most in the Vote record of the pair (r.user,
\* r.id) and in the score of the item r.id of kind r.kind.
VoteFrame(r) ==
    /\ {NoScore(d) : d \in posts'} = {NoScore(d) : d \in posts}
    /\ {NoScore(d) : d \in comments'} = {NoScore(d) : d \in comments}
    /\ \A k \in Kinds :
         \A d \in CollectionIn(posts, comments, k)
                    \cup CollectionIn(posts', comments', k) :
            <<k, d.id>> # <<r.kind, r.id>> =>
               (d \in CollectionIn(posts, comments, k)
                  <=> d \in CollectionIn(posts', comments', k))
    /\ \A v \in votes \cup votes' :
         <<v.user, v.item, v.itemType>> # <<r.user, r.id, r.kind>> =>
            (v \in votes <=> v \in votes')

\* C25: every step of a vote request of user u on item i changes at most
\* the Vote record of the pair (u, i) and the score of item i; the Vote
\* records of the other pairs, the scores of the other items and the set of
\* items are left as they are.
C25_VoteFrame ==
    [][\A p \in Procs : VoteStep(p) => VoteFrame(req'[p])]_vars

\* A vote was served on an item that carries another user's vote, while
\* another item carries votes too.
C25_Witness ==
    \E p \in Procs :
        /\ pc[p] = "done" /\ req[p].op = "vote" /\ res[p].status = 200
        /\ findOne(req[p].user, req[p].id, req[p].kind) # NoVote
        /\ \E w \in votes : w.item = req[p].id /\ w.user # req[p].user
        /\ \E w \in votes : w.item # req[p].id

\* ----------------------------------------------- delete by another user

\* The handler in slot p takes a step of a delete request.
DeleteStep(p) == req'[p].op = "delete" /\ pc'[p] # pc[p]

\* The handler in slot p looks up the item of a delete request, and the
\* item is stored with another user as its author.
DeleteByOther(p) ==
    /\ req[p].op = "delete"
    /\ pc[p] \in {"dp_findPost", "dc_findComment"}
    /\ pc'[p] # pc[p]
    /\ Exists(Collection(req[p].kind), req[p].id)
    /\ findById(Collection(req[p].kind), req[p].id).author # req[p].user

\* C26: a delete request for a post or a comment by a user who is not its
\* author is answered 401 and leaves every item, comment, Vote record and
\* score as it is; a step of a delete request changes the store only when
\* the requester is the author of the item it loaded.
C26_OnlyAuthorDeletes ==
    [][\A p \in Procs :
          /\ DeleteByOther(p) =>
                /\ pc'[p] = "done"
                /\ res'[p].status = 401
                /\ store' = store
          /\ (DeleteStep(p) /\ store' # store) =>
                /\ doc[p] # NoDoc
                /\ doc[p].id = req[p].id
                /\ doc[p].author = req[p].user]_vars

\* Another user's delete request for a post that has a comment and votes
\* was refused.
C26_Witness ==
    \E p \in Procs :
        /\ pc[p] = "done" /\ req[p].op = "delete" /\ req[p].kind = "post"
        /\ res[p].status = 401
        /\ \E c \in comments : c.post = req[p].id
        /\ VotesOf("post", req[p].id) # {}

\* ---------------------------------------------------------------- termination

\* A vote request is being served, no response sent yet.
VoteRunning == req[1].op = "vote" /\ ~ Idle(1)

\* A vote request has been answered.
VoteAnswered ==
    /\ req[1].op = "vote"
    /\ pc[1] = "done"
    /\ res[1].status \in {200, 400, 404, 500}

\* C27: every vote request is answered in the end, with the new score, 400,
\* 404 or 500, provided the store operations it issues are answered; no
\* response is sent before the handler is done, so there is exactly one.
C27_VoteTerminates ==
    /\ [](VoteRunning => res[1] = NoRes)
    /\ [](req[1].op = "vote" => (VoteRunning \/ VoteAnswered))
    /\ VoteRunning ~> VoteAnswered

\* A vote request that had removed the user's vote was answered 500 when the
\* store failed at the save of the item.
C27_Witness ==
    /\ VoteAnswered
    /\ res[1].err = "StoreUnavailable"
    /\ hist # <<>>
    /\ Last.vBefore.value # 0
    /\ Last.vAfter = Brief(NoVote)

====
